---- MODULE Spec2Model ----
(***************************************************************************)
(* A model of job_scraper.py: the daily job aggregator.  One run of main   *)
(* pages through the Adzuna API, reads the configured RSS feeds,           *)
(* deduplicates, filters and writes the CSV.                               *)
(*                                                                         *)
(* Representation.  A Python str is a tuple of one-character strings.      *)
(* Python None is the tuple None; a key that a JSON object or an XML       *)
(* element does not carry is the tuple Missing.  A datetime is a record    *)
(* [kind, d, s, us]: kind "none" (None), "aware" (tzinfo set) or "naive",  *)
(* d the proleptic ordinal of the day, s the second of the day and us the  *)
(* microsecond, which is how datetime stores it.                           *)
(***************************************************************************)
EXTENDS Integers, Sequences, FiniteSets, TLC

VARIABLES
    pc,          \* position of the run: main's current statement
    exc,         \* the exception that ended the run, "" when none
    use_adzuna,  \* CONFIG["use_adzuna"]: both credentials are in the environment
    n_feeds,     \* len(CONFIG["rss_feeds"])
    now,         \* the clock, datetime.now(timezone.utc)
    ticks,       \* how often the clock has advanced
    page,        \* fetch_adzuna_jobs: page
    results,     \* fetch_adzuna_jobs: results
    resp,        \* fetch_adzuna_jobs: status and count of the last response
    alog,        \* fetch_adzuna_jobs: trace of requests.get and time.sleep calls
    feed_i,      \* fetch_rss_jobs: index of the next url of rss_urls
    out,         \* fetch_rss_jobs: out
    rss_log,     \* fetch_rss_jobs: how the last feed ended, what line 149 logs
    all_items,   \* main: all_items
    dedup,       \* main: dedup
    filtered,    \* main: filtered
    csv,         \* the rows of the output file, <<>> before it is written
    printed,     \* the count in the summary line, -1 before it is printed
    win_dt,      \* the argument of a direct call of within_window
    win_out      \* its outcome: "True", "False", "TypeError"; "" before the call

vars == <<pc, exc, use_adzuna, n_feeds, now, ticks, page, results, resp, alog,
          feed_i, out, rss_log, all_items, dedup, filtered, csv, printed,
          win_dt, win_out>>

(***************************************************************************)
(* Bounds of the model.                                                    *)
(***************************************************************************)
MaxResults == 2    \* postings the API fetcher accumulates in one run
MaxFeeds == 2      \* configured feed URLs
MaxOut == 2        \* postings the RSS fetcher accumulates in one run
MaxTicks == 1      \* clock advances during one run
MaxDedupLen == 3   \* length of the collected sequence handed to the dedup loop
MaxFilterLen == 2  \* length of the sequence handed to filter_jobs

(***************************************************************************)
(* CONFIG                                                                  *)
(***************************************************************************)
keywords ==
    << <<"J","a","v","a">>, <<"S","p","r","i","n","g">>, <<"S","p","r","i","n","g"," ","B","o","o","t">>, <<"J","a","v","a"," ","8">>, <<"J","a","v","a"," ","1","1">>,
       <<"M","i","c","r","o","s","e","r","v","i","c","e","s">>, <<"H","i","b","e","r","n","a","t","e">>, <<"J","2","E","E">>, <<"R","E","S","T">>, <<"N","o","d","e",".","j","s">>,
       <<"R","e","a","c","t">>, <<"S","Q","L">>, <<"M","u","l","t","i","t","h","r","e","a","d","i","n","g">>, <<"S","e","r","v","l","e","t","s">>, <<"C","o","r","e"," ","J","a","v","a">>,
       <<"D","a","t","a"," ","S","t","r","u","c","t","u","r","e">> >>

\* roles_regex, an alternation of literals ([- ] is either character); the
\* search runs with re.I, so each alternative is matched case-blind.
roles_alternatives ==
    { <<"s","o","f","t","w","a","r","e"," ","e","n","g","i","n","e","e","r">>, <<"f","u","l","l","-","s","t","a","c","k">>, <<"f","u","l","l"," ","s","t","a","c","k">>,
      <<"b","a","c","k","e","n","d"," ","d","e","v","e","l","o","p","e","r">>, <<"j","a","v","a"," ","d","e","v","e","l","o","p","e","r">> }

locations_allowed == << <<"I","n","d","i","a">>, <<"R","e","m","o","t","e">>, <<"B","e","n","g","a","l","u","r","u">>, <<"B","a","n","g","a","l","o","r","e">> >>
exp_min == 2
exp_max == 4
post_within_hours == 48
output_limit == 200
results_per_page == 50
page_cap == 5
short_desc_len == 300
rss_desc_len == 1000

(***************************************************************************)
(* Python values                                                           *)
(***************************************************************************)
None == <<"None">>
Missing == <<"Missing">>

Truthy(x) == x # None /\ x # Missing /\ x # <<>>

\* x or y
Or(x, y) == IF Truthy(x) THEN x ELSE y

\* dict.get(k): None for a key the dict does not carry
Get(v) == IF v = Missing THEN None ELSE v

\* dict.get(k, default): the default only for a key the dict does not carry
GetOr(v, default) == IF v = Missing THEN default ELSE v

Min(a, b) == IF a <= b THEN a ELSE b

LowerChar(c) ==
    CASE c = "A" -> "a" [] c = "B" -> "b" [] c = "C" -> "c" [] c = "D" -> "d"
      [] c = "E" -> "e" [] c = "F" -> "f" [] c = "G" -> "g" [] c = "H" -> "h"
      [] c = "I" -> "i" [] c = "J" -> "j" [] c = "K" -> "k" [] c = "L" -> "l"
      [] c = "M" -> "m" [] c = "N" -> "n" [] c = "O" -> "o" [] c = "P" -> "p"
      [] c = "Q" -> "q" [] c = "R" -> "r" [] c = "S" -> "s" [] c = "T" -> "t"
      [] c = "U" -> "u" [] c = "V" -> "v" [] c = "W" -> "w" [] c = "X" -> "x"
      [] c = "Y" -> "y" [] c = "Z" -> "z" [] OTHER -> c

\* str.lower()
Lower(t) == [i \in 1..Len(t) |-> LowerChar(t[i])]

\* needle in hay
Contains(needle, hay) ==
    \E i \in 0..(Len(hay) - Len(needle)) : SubSeq(hay, i + 1, i + Len(needle)) = needle

Whitespace == {" ", "\t"}

\* str.strip()
Strip(t) ==
    LET keep == {i \in 1..Len(t) : t[i] \notin Whitespace}
    IN  IF keep = {} THEN <<>>
        ELSE SubSeq(t, CHOOSE i \in keep : \A j \in keep : i <= j,
                       CHOOSE i \in keep : \A j \in keep : j <= i)

\* t[:n]
Take(t, n) == SubSeq(t, 1, Min(n, Len(t)))

RECURSIVE Join(_)
\* " ".join(parts)
Join(parts) ==
    IF parts = <<>> THEN <<>>
    ELSE IF Len(parts) = 1 THEN parts[1]
    ELSE parts[1] \o <<" ">> \o Join(Tail(parts))

\* filter(None, parts)
FilterTruthy(parts) == SelectSeq(parts, Truthy)

(***************************************************************************)
(* Helpers                                                                 *)
(***************************************************************************)
contains_keywords(text) ==
    LET t == Lower(Or(text, <<>>))
    IN  IF \E k \in 1..Len(keywords) : Contains(Lower(keywords[k]), t)
        THEN TRUE
        ELSE \E alt \in roles_alternatives : Contains(alt, t)

NoDate == [kind |-> "none", d |-> 0, s |-> 0, us |-> 0]
Aware(d, s, us) == [kind |-> "aware", d |-> d, s |-> s, us |-> us]
Naive(d, s, us) == [kind |-> "naive", d |-> d, s |-> s, us |-> us]

\* datetime.__sub__ of two aware datetimes: the timedelta, normalised as
\* timedelta keeps it (0 <= seconds < 86400, 0 <= microseconds < 1000000)
DtSub(a, b) ==
    LET us0 == a.us - b.us
        s0  == (a.s - b.s) - (IF us0 < 0 THEN 1 ELSE 0)
        d0  == (a.d - b.d) - (IF s0 < 0 THEN 1 ELSE 0)
    IN  [days |-> d0,
         seconds |-> IF s0 < 0 THEN s0 + 86400 ELSE s0,
         microseconds |-> IF us0 < 0 THEN us0 + 1000000 ELSE us0]

\* a window that excludes its edge: total_seconds() < limit
TotalSecondsLt(td, limit) ==
    LET ld == limit \div 86400
        ls == limit % 86400
    IN  \/ td.days < ld
        \/ td.days = ld /\ td.seconds < ls

\* td.total_seconds() <= limit, for a whole number limit of seconds
TotalSecondsLe(td, limit) ==
    LET ld == limit \div 86400
        ls == limit % 86400
    IN  \/ td.days < ld
        \/ td.days = ld /\ td.seconds < ls
        \/ td.days = ld /\ td.seconds = ls /\ td.microseconds = 0

\* within_window(dt) at clock reading clock: "True", "False", or the
\* TypeError of subtracting an offset-naive from an offset-aware datetime
within_window(dt, clock) ==
    IF dt.kind = "none" THEN "False"
    ELSE IF dt.kind = "naive" THEN "TypeError"
    ELSE IF TotalSecondsLe(DtSub(clock, dt), post_within_hours * 3600) THEN "True"
    ELSE "False"

(***************************************************************************)
(* Date text.  The text of a date field is kept by what the parsers see in *)
(* it: [kind, hours, days, dt].  kind "empty" is the empty string,         *)
(* "rfc822" a text whose first 25 characters strptime accepts (dt the      *)
(* instant they name), "relative" a text in which the hour or the day      *)
(* pattern finds a number (-1 for the pattern that finds none), "iso" a    *)
(* text fromisoformat accepts (dt aware when it carries Z or an offset,    *)
(* naive when it carries none), "garbage" any other text.                  *)
(***************************************************************************)
DateText(kind, hours, days, dt) == [kind |-> kind, hours |-> hours, days |-> days, dt |-> dt]

\* the OverflowError of a timedelta or a date out of range, in place of a datetime
Overflow == [kind |-> "OverflowError", d |-> 0, s |-> 0, us |-> 0]

\* clock - timedelta(days=days, seconds=secs) for an aware clock: the datetime,
\* or Overflow when the timedelta or the resulting date is out of range
MinusDelta(clock, days, secs) ==
    LET s0 == clock.s - secs
        d0 == (clock.d - days) - (IF s0 < 0 THEN 1 ELSE 0)
    IN  IF days > 999999999 \/ d0 < 1 THEN Overflow
        ELSE Aware(d0, IF s0 < 0 THEN s0 + 86400 ELSE s0, clock.us)

\* parse_post_date_generic(posted_text) at clock reading clock
parse_post_date_generic(text, clock) ==
    IF text.kind = "empty" THEN NoDate
    ELSE IF text.kind = "relative" /\ text.hours >= 0
         THEN MinusDelta(clock, text.hours \div 24, (text.hours % 24) * 3600)
    ELSE IF text.kind = "relative" /\ text.days >= 0
         THEN MinusDelta(clock, text.days, 0)
    ELSE IF text.kind = "iso" THEN text.dt
    ELSE NoDate

(***************************************************************************)
(* Postings: the dicts both fetchers build.  src is not a key of the dict: *)
(* it records which fetcher built it.  location is [has, area]: has is     *)
(* whether the dict carries the key "location" (the RSS dicts do not).     *)
(* exp is [kind, v]: kind "none" (None), "num" (an int) or "str".          *)
(***************************************************************************)
NoExp == [kind |-> "none", v |-> 0]

Posting(src, title, company, location, location_plain, remote, skills, exp,
        link, posted_dt, short_desc) ==
    [src |-> src, title |-> title, company |-> company, location |-> location,
     location_plain |-> location_plain, remote |-> remote, skills |-> skills,
     exp |-> exp, link |-> link, posted_dt |-> posted_dt, short_desc |-> short_desc]

NoPosting ==
    Posting("", None, None, [has |-> FALSE, area |-> <<>>], None, FALSE, None,
            NoExp, None, NoDate, None)

(***************************************************************************)
(* fetch_adzuna_jobs: one result object j of the JSON body.  A field is a  *)
(* text, None (JSON null) or Missing; created is a date text; location is  *)
(* [kind, display_name, area] with kind "missing", "null" or "obj".        *)
(***************************************************************************)
AdzunaJson(title, description, created, redirect_url, company, location) ==
    [title |-> title, description |-> description, created |-> created,
     redirect_url |-> redirect_url, company |-> company, location |-> location]

\* the try block of lines 98-102: fromisoformat or None
adzuna_created(created) ==
    IF created.kind = "iso" THEN created.dt ELSE NoDate

\* lines 103-114: [err, item]; err is the exception the dict display raises
adzuna_item(j) ==
    LET desc  == GetOr(j.description, <<>>)
        title == GetOr(j.title, <<>>)
    IN  IF j.location.kind = "null"
        THEN [err |-> "AttributeError", item |-> NoPosting]
        ELSE IF desc = None \/ title = None
        THEN [err |-> "TypeError", item |-> NoPosting]
        ELSE [err |-> "",
              item |-> Posting("adzuna",
                         Get(j.title),
                         j.company,
                         [has |-> TRUE,
                          area |-> IF j.location.kind = "obj" THEN j.location.area ELSE <<>>],
                         IF j.location.kind = "obj" THEN j.location.display_name ELSE None,
                         Contains(<<"r","e","m","o","t","e">>, Lower(desc \o title)),
                         Get(j.description),
                         NoExp,
                         Or(Get(j.redirect_url), Get(j.redirect_url)),
                         adzuna_created(j.created),
                         Take(desc, short_desc_len))]

RECURSIVE adzuna_items(_)
\* the for loop of lines 95-115 over data["results"]: [err, items]
adzuna_items(js) ==
    IF js = <<>> THEN [err |-> "", items |-> <<>>]
    ELSE LET head == adzuna_item(js[1])
         IN  IF head.err # "" THEN [err |-> head.err, items |-> <<>>]
             ELSE LET rest == adzuna_items(Tail(js))
                  IN  [err |-> rest.err, items |-> <<head.item>> \o rest.items]

\* a guard that lets the page whose end equals the count ask for one more
pagination_guard_strict(p, count) == p * results_per_page > count \/ p > page_cap

\* a guard without the page cap
pagination_guard_uncapped(p, count) == p * results_per_page >= count

\* the pagination guard of line 117
pagination_guard(p, count) == p * results_per_page >= count \/ p > page_cap

(***************************************************************************)
(* fetch_rss_jobs: one item element of the feed.  title, link and          *)
(* description are what findtext returns (Missing for no such child);      *)
(* pubDate and published are date texts, "empty" for no such child.        *)
(***************************************************************************)
RssXml(title, link, description, pubDate, published) ==
    [title |-> title, link |-> link, description |-> description,
     pubDate |-> pubDate, published |-> published]

\* lines 137-142: posted_dt, or Overflow when parse_post_date_generic raises
rss_posted_dt(x, clock) ==
    LET pub == IF x.pubDate.kind # "empty" THEN x.pubDate ELSE x.published
    IN  IF pub.kind = "rfc822" THEN Aware(pub.dt.d, pub.dt.s, 0)
        ELSE parse_post_date_generic(pub, clock)

\* lines 134-146: the dict appended for one item
rss_item(x, clock) ==
    LET title == Or(Get(x.title), <<>>)
        link  == Or(Get(x.link), <<>>)
        desc  == Take(Or(Get(x.description), <<>>), rss_desc_len)
    IN  Posting("rss", title, <<>>, [has |-> FALSE, area |-> <<>>], <<>>,
                Contains(<<"r","e","m","o","t","e">>, Lower(title \o desc)),
                desc, NoExp, link, rss_posted_dt(x, clock),
                Take(desc, short_desc_len))

RECURSIVE rss_items(_, _)
\* the for loop of lines 133-146: [err, items], items what was appended
\* before an exception, if any, left the loop
rss_items(xs, clock) ==
    IF xs = <<>> THEN [err |-> "", items |-> <<>>]
    ELSE LET head == rss_item(xs[1], clock)
         IN  IF head.posted_dt.kind = "OverflowError"
             THEN [err |-> "OverflowError", items |-> <<>>]
             ELSE LET rest == rss_items(Tail(xs), clock)
                  IN  [err |-> rest.err, items |-> <<head>> \o rest.items]

(***************************************************************************)
(* main: the deduplication loop                                            *)
(***************************************************************************)
\* line 201 before .strip(): it.get("link") or it.get("title", "").  Every
\* posting dict carries the key "title", so the default is never taken.
dedup_key_raw(it) == Or(it.link, it.title)

RECURSIVE dedup_loop(_, _, _)
\* lines 198-204 over the rest of all_items: [err, dedup]; err is the
\* AttributeError of None.strip()
dedup_loop(items, seen, acc) ==
    IF items = <<>> THEN [err |-> "", dedup |-> acc]
    ELSE LET raw == dedup_key_raw(items[1])
         IN  IF raw = None THEN [err |-> "AttributeError", dedup |-> acc]
             ELSE LET key == Strip(raw)
                  IN  IF key = <<>> \/ key \in seen
                      THEN dedup_loop(Tail(items), seen, acc)
                      ELSE dedup_loop(Tail(items), seen \cup {key}, Append(acc, items[1]))

(***************************************************************************)
(* filter_jobs                                                             *)
(***************************************************************************)
\* line 159
text_blob(it) == Join(FilterTruthy(<<it.title, it.skills, it.short_desc>>))

\* line 164
loc_text(it) ==
    Lower(Or(it.location_plain,
             Join(IF it.location.has THEN it.location.area ELSE << <<>> >>)))

\* the containment test the wrong way round: loc_text in loc.lower()
loc_ok_swapped(it) ==
    \E k \in 1..Len(locations_allowed) : Contains(loc_text(it), Lower(locations_allowed[k]))

\* lines 163-168
loc_ok(it) ==
    \E k \in 1..Len(locations_allowed) : Contains(Lower(locations_allowed[k]), loc_text(it))

\* a range that excludes its ends
exp_ok_exclusive(it) ==
    IF it.exp.kind = "num"
    THEN ~(it.exp.v <= exp_min \/ it.exp.v >= exp_max)
    ELSE TRUE

\* lines 172-175: FALSE when the record is skipped for its experience
exp_ok(it) ==
    IF it.exp.kind = "num"
    THEN ~(it.exp.v < exp_min \/ it.exp.v > exp_max)
    ELSE TRUE

\* the body of the loop, lines 156-176, for one record: "keep", "drop", or
\* the TypeError within_window raises
filter_verdict(it, clock) ==
    IF it.posted_dt.kind = "none" THEN "drop"
    ELSE IF within_window(it.posted_dt, clock) = "TypeError" THEN "TypeError"
    ELSE IF within_window(it.posted_dt, clock) = "False" THEN "drop"
    ELSE IF ~contains_keywords(text_blob(it)) THEN "drop"
    ELSE IF ~loc_ok(it) /\ ~it.remote THEN "drop"
    ELSE IF ~exp_ok(it) THEN "drop"
    ELSE "keep"

RECURSIVE filter_jobs(_, _)
\* filter_jobs(items): [err, filtered]
filter_jobs(items, clock) ==
    IF items = <<>> THEN [err |-> "", filtered |-> <<>>]
    ELSE LET v == filter_verdict(items[1], clock)
         IN  IF v = "TypeError" THEN [err |-> "TypeError", filtered |-> <<>>]
             ELSE LET rest == filter_jobs(Tail(items), clock)
                  IN  [err |-> rest.err,
                       filtered |-> IF v = "keep" THEN <<items[1]>> \o rest.filtered
                                    ELSE rest.filtered]

(***************************************************************************)
(* save_csv                                                                *)
(***************************************************************************)
\* line 186: the row of one record; a datetime is written as its isoformat
\* text, here the datetime tagged "iso", and only the nine keys are written
csv_row(it) ==
    [title |-> it.title, company |-> it.company, location_plain |-> it.location_plain,
     remote |-> it.remote, skills |-> it.skills, exp |-> it.exp, link |-> it.link,
     posted_dt |-> IF it.posted_dt.kind = "none" THEN [iso |-> FALSE, dt |-> NoDate]
                   ELSE [iso |-> TRUE, dt |-> it.posted_dt],
     short_desc |-> it.short_desc]

\* lines 181-187: the header row and one row per record
save_csv(items) ==
    [header |-> << <<"t","i","t","l","e">>, <<"c","o","m","p","a","n","y">>, <<"l","o","c","a","t","i","o","n","_","p","l","a","i","n">>, <<"r","e","m","o","t","e">>, <<"s","k","i","l","l","s">>,
                   <<"e","x","p">>, <<"l","i","n","k">>, <<"p","o","s","t","e","d","_","d","t">>, <<"s","h","o","r","t","_","d","e","s","c">> >>,
     rows |-> [i \in 1..Len(items) |-> csv_row(items[i])]]

NoCsv == [header |-> <<>>, rows |-> <<>>]

(***************************************************************************)
(* Inputs: what the environment, the API and the feeds hand to one run.    *)
(***************************************************************************)
SeqsUpTo(S, n) == UNION {[1..k -> S] : k \in 0..n}

Clock0 == Aware(739000, 36000, 500000)
Recent == Aware(739000, 32400, 0)      \* one hour before Clock0

EmptyDate    == DateText("empty", -1, -1, NoDate)
GarbageDate  == DateText("garbage", -1, -1, NoDate)
IsoDate(dt)  == DateText("iso", -1, -1, dt)
Rfc822(dt)   == DateText("rfc822", -1, -1, dt)
RelHours(n)  == DateText("relative", n, -1, NoDate)
RelDays(n)   == DateText("relative", -1, n, NoDate)

LocObj(display_name, area) == [kind |-> "obj", display_name |-> display_name, area |-> area]
LocNull    == [kind |-> "null", display_name |-> None, area |-> <<>>]
LocMissing == [kind |-> "missing", display_name |-> None, area |-> <<>>]

\* result objects whose dict display returns
AdzunaGood ==
    { AdzunaJson(<<"J","a","v","a"," ","D","e","v">>, <<"S","p","r","i","n","g"," ","B","o","o","t",","," ","r","e","m","o","t","e">>, IsoDate(Recent), <<"u","/","1">>,
                 <<"A","c","m","e">>, LocObj(<<"B","e","n","g","a","l","u","r","u">>, << <<"I","n","d","i","a">>, <<"B","e","n","g","a","l","u","r","u">> >>)),
      AdzunaJson(<<"J","a","v","a"," ","D","e","v">>, <<"H","i","b","e","r","n","a","t","e">>, IsoDate(Naive(739000, 32400, 0)), <<"u","/","3">>,
                 <<"A","c","m","e">>, LocObj(<<"I","n","d","i","a">>, <<>>)),
      AdzunaJson(Missing, Missing, GarbageDate, Missing, None, LocMissing) }

\* result objects with a JSON null where the dict display takes a str or a dict
AdzunaNull ==
    { AdzunaJson(None, <<"S","p","r","i","n","g">>, IsoDate(Recent), <<"u","/","5">>, None, LocMissing),
      AdzunaJson(<<"J","a","v","a">>, <<"S","p","r","i","n","g">>, IsoDate(Recent), <<"u","/","6">>, None, LocNull) }

AdzunaResults == AdzunaGood \cup AdzunaNull

Statuses == {200, 204, 503}

\* the body's "count": [has, v], has FALSE for a body without the key
Counts == {[has |-> FALSE, v |-> 0]} \cup {[has |-> TRUE, v |-> n] : n \in {3, 100, 260, 1000}}

\* item elements whose date text parses or is dropped
RssGood ==
    { RssXml(<<"R","e","m","o","t","e"," ","J","a","v","a"," ","D","e","v">>, <<"r","/","1">>, <<"S","p","r","i","n","g">>, Rfc822(Recent), EmptyDate),
      RssXml(<<"J","a","v","a"," ","D","e","v"," ","B","e","n","g","a","l","u","r","u">>, <<"r","/","2">>, <<"S","Q","L">>, Rfc822(Recent), EmptyDate),
      RssXml(<<"J","a","v","a"," ","c","o","r","e">>, <<"r","/","3">>, <<"m","o","t","e">>, EmptyDate, IsoDate(Recent)),
      RssXml(<<"R","E","M","O","T","E"," ","R","e","a","c","t">>, <<"u","/","1">>, Missing, RelHours(3), EmptyDate),
      RssXml(<<"R","e","m","o","t","e"," ","S","Q","L">>, <<"r","/","4">>, <<"x">>, IsoDate(Naive(739000, 32400, 0)), EmptyDate) }

\* item elements whose relative date is out of datetime's range
RssOverflow ==
    { RssXml(<<"R","e","m","o","t","e"," ","J","a","v","a">>, <<"r","/","5">>, <<"x">>, RelDays(999999999), EmptyDate) }

RssElements == RssGood \cup RssOverflow

NoResp == [status |-> 0, count |-> 0]
NoFeed == [kind |-> ""]

(***************************************************************************)
(* One run of main                                                         *)
(***************************************************************************)
Init ==
    /\ pc = "start"
    /\ exc = ""
    /\ use_adzuna \in BOOLEAN
    /\ n_feeds \in 0..MaxFeeds
    /\ now = Clock0
    /\ ticks = 0
    /\ page = 0
    /\ results = <<>>
    /\ resp = NoResp
    /\ alog = <<>>
    /\ feed_i = 0
    /\ out = <<>>
    /\ rss_log = NoFeed
    /\ all_items = <<>>
    /\ dedup = <<>>
    /\ filtered = <<>>
    /\ csv = NoCsv
    /\ printed = -1
    /\ win_dt = NoDate
    /\ win_out = ""

\* line 195: fetch_rss_jobs is called for a non-empty feed list only
after_adzuna == IF n_feeds > 0 THEN "rss" ELSE "dedup"

\* lines 190-193 up to the first request: all_items = [], then into
\* fetch_adzuna_jobs (results = [], page = 1) when use_adzuna is set
Start ==
    /\ pc = "start"
    /\ IF use_adzuna
       THEN /\ pc' = "adzuna"
            /\ page' = 1
            /\ feed_i' = feed_i
       ELSE /\ pc' = after_adzuna
            /\ page' = page
            /\ feed_i' = IF n_feeds > 0 THEN 1 ELSE feed_i
    /\ UNCHANGED <<exc, use_adzuna, n_feeds, now, ticks, results, resp, alog, out,
                   rss_log, all_items, dedup, filtered, csv, printed, win_dt, win_out>>

\* the traceback of an uncaught exception ends the run
Crash(e) ==
    /\ pc' = "crashed"
    /\ exc' = e

\* line 91 raises: requests.get times out or cannot connect
AdzunaRequestRaises ==
    /\ pc = "adzuna"
    /\ \E e \in {"Timeout", "ConnectionError"} : Crash(e)
    /\ alog' = Append(alog, [ev |-> "get", page |-> page])
    /\ UNCHANGED <<use_adzuna, n_feeds, now, ticks, page, results, resp, feed_i, out,
                   rss_log, all_items, dedup, filtered, csv, printed, win_dt, win_out>>

\* lines 91-93: a response whose status is not 200 leaves the loop
AdzunaNot200 ==
    /\ pc = "adzuna"
    /\ \E st \in Statuses \ {200} : resp' = [status |-> st, count |-> 0]
    /\ alog' = Append(alog, [ev |-> "get", page |-> page])
    /\ pc' = "adzuna_return"
    /\ UNCHANGED <<exc, use_adzuna, n_feeds, now, ticks, page, results, feed_i, out,
                   rss_log, all_items, dedup, filtered, csv, printed, win_dt, win_out>>

\* line 94 raises: the body of a 200 response is not JSON
AdzunaJsonRaises ==
    /\ pc = "adzuna"
    /\ Crash("JSONDecodeError")
    /\ resp' = [status |-> 200, count |-> 0]
    /\ alog' = Append(alog, [ev |-> "get", page |-> page])
    /\ UNCHANGED <<use_adzuna, n_feeds, now, ticks, page, results, feed_i, out,
                   rss_log, all_items, dedup, filtered, csv, printed, win_dt, win_out>>

\* lines 91-120: one pass of the while loop for a 200 response with a JSON body
AdzunaPage ==
    /\ pc = "adzuna"
    /\ \E c \in Counts, js \in SeqsUpTo(AdzunaResults, MaxResults - Len(results)) :
          LET got   == adzuna_items(js)
              count == IF c.has THEN c.v ELSE 0
          IN  /\ resp' = [status |-> 200, count |-> count]
              /\ IF got.err # ""
                 THEN /\ Crash(got.err)
                      /\ results' = results \o got.items
                      /\ page' = page
                      /\ alog' = Append(alog, [ev |-> "get", page |-> page])
                 ELSE /\ exc' = exc
                      /\ results' = results \o got.items
                      /\ IF pagination_guard(page, count)
                         THEN /\ pc' = "adzuna_return"
                              /\ page' = page
                              /\ alog' = Append(alog, [ev |-> "get", page |-> page])
                         ELSE /\ pc' = "adzuna"
                              /\ page' = page + 1
                              /\ alog' = alog \o << [ev |-> "get", page |-> page],
                                                    [ev |-> "sleep", page |-> page] >>
    /\ UNCHANGED <<use_adzuna, n_feeds, now, ticks, feed_i, out, rss_log, all_items,
                   dedup, filtered, csv, printed, win_dt, win_out>>

\* line 121 and line 193: return results; all_items.extend(...)
AdzunaReturn ==
    /\ pc = "adzuna_return"
    /\ all_items' = all_items \o results
    /\ pc' = after_adzuna
    /\ feed_i' = IF n_feeds > 0 THEN 1 ELSE feed_i
    /\ page' = 0
    /\ results' = <<>>
    /\ resp' = NoResp
    /\ alog' = <<>>
    /\ UNCHANGED <<exc, use_adzuna, n_feeds, now, ticks, out, rss_log, dedup, filtered,
                   csv, printed, win_dt, win_out>>

\* lines 129-130 raise: requests.get fails; line 149 logs it, the loop goes on
RssGetRaises ==
    /\ pc = "rss"
    /\ feed_i <= n_feeds
    /\ rss_log' = [kind |-> "get_raises"]
    /\ feed_i' = feed_i + 1
    /\ UNCHANGED <<pc, exc, use_adzuna, n_feeds, now, ticks, page, results, resp, alog,
                   out, all_items, dedup, filtered, csv, printed, win_dt, win_out>>

\* line 131 raises: the body is not well-formed XML
RssXmlRaises ==
    /\ pc = "rss"
    /\ feed_i <= n_feeds
    /\ rss_log' = [kind |-> "xml_raises"]
    /\ feed_i' = feed_i + 1
    /\ UNCHANGED <<pc, exc, use_adzuna, n_feeds, now, ticks, page, results, resp, alog,
                   out, all_items, dedup, filtered, csv, printed, win_dt, win_out>>

\* lines 129-149 for a feed that parses: the item loop, left early by the
\* exception of an item, which the except clause of line 147 catches
RssFeed ==
    /\ pc = "rss"
    /\ feed_i <= n_feeds
    /\ \E xs \in SeqsUpTo(RssElements, MaxOut - Len(out)) :
          LET got == rss_items(Take(xs, output_limit), now)
          IN  /\ out' = out \o got.items
              /\ rss_log' = [kind |-> IF got.err # "" THEN "item_raises" ELSE "ok"]
    /\ feed_i' = feed_i + 1
    /\ UNCHANGED <<pc, exc, use_adzuna, n_feeds, now, ticks, page, results, resp, alog,
                   all_items, dedup, filtered, csv, printed, win_dt, win_out>>

\* line 150 and line 196: return out; all_items.extend(...)
RssReturn ==
    /\ pc = "rss"
    /\ feed_i > n_feeds
    /\ all_items' = all_items \o out
    /\ pc' = "dedup"
    /\ feed_i' = 0
    /\ out' = <<>>
    /\ rss_log' = NoFeed
    /\ UNCHANGED <<exc, use_adzuna, n_feeds, now, ticks, page, results, resp, alog,
                   dedup, filtered, csv, printed, win_dt, win_out>>

\* lines 197-204
Dedup ==
    /\ pc = "dedup"
    /\ LET r == dedup_loop(all_items, {}, <<>>)
       IN  IF r.err # ""
           THEN Crash(r.err) /\ dedup' = dedup
           ELSE pc' = "filter" /\ exc' = exc /\ dedup' = r.dedup
    /\ UNCHANGED <<use_adzuna, n_feeds, now, ticks, page, results, resp, alog, feed_i,
                   out, rss_log, all_items, filtered, csv, printed, win_dt, win_out>>

\* line 205
Filter ==
    /\ pc = "filter"
    /\ LET r == filter_jobs(dedup, now)
       IN  IF r.err # ""
           THEN Crash(r.err) /\ filtered' = filtered
           ELSE pc' = "save" /\ exc' = exc /\ filtered' = r.filtered
    /\ UNCHANGED <<use_adzuna, n_feeds, now, ticks, page, results, resp, alog, feed_i,
                   out, rss_log, all_items, dedup, csv, printed, win_dt, win_out>>

\* lines 206-207: the file is written, the summary line printed, main returns
Save ==
    /\ pc = "save"
    /\ csv' = save_csv(filtered)
    /\ printed' = Len(filtered)
    /\ pc' = "done"
    /\ UNCHANGED <<exc, use_adzuna, n_feeds, now, ticks, page, results, resp, alog,
                   feed_i, out, rss_log, all_items, dedup, filtered, win_dt, win_out>>

\* the clock one second later
Advance(clock) ==
    IF clock.s = 86399 THEN Aware(clock.d + 1, 0, clock.us)
    ELSE Aware(clock.d, clock.s + 1, clock.us)

\* time passes between the fetchers' reading of the clock and filter_jobs'
Tick ==
    /\ pc \in {"dedup", "filter"}
    /\ ticks < MaxTicks
    /\ now' = Advance(now)
    /\ ticks' = ticks + 1
    /\ UNCHANGED <<pc, exc, use_adzuna, n_feeds, page, results, resp, alog, feed_i, out,
                   rss_log, all_items, dedup, filtered, csv, printed, win_dt, win_out>>

Next ==
    \/ Start
    \/ AdzunaRequestRaises
    \/ AdzunaNot200
    \/ AdzunaJsonRaises
    \/ AdzunaPage
    \/ AdzunaReturn
    \/ RssGetRaises
    \/ RssXmlRaises
    \/ RssFeed
    \/ RssReturn
    \/ Dedup
    \/ Filter
    \/ Save
    \/ Tick

Spec == Init /\ [][Next]_vars

(***************************************************************************)
(* The deduplication loop on its own, for any collected sequence           *)
(***************************************************************************)
\* a posting with the given link and title
Keyed(link, title) ==
    Posting("adzuna", title, None, [has |-> TRUE, area |-> <<>>], None, FALSE, None,
            NoExp, link, NoDate, <<>>)

DedupInputs ==
    { Keyed(<<"a">>, <<"T">>), Keyed(<<"a">>, <<"U">>), Keyed(<<" ">>, <<"T">>), Keyed(<<>>, <<"T">>),
      Keyed(None, <<"t">>), Keyed(<<"a"," ">>, <<"V">>), Keyed(<<>>, <<>>), Keyed(None, None) }

InitDedup ==
    /\ pc = "dedup"
    /\ exc = ""
    /\ use_adzuna = FALSE
    /\ n_feeds = 0
    /\ now = Clock0
    /\ ticks = 0
    /\ page = 0
    /\ results = <<>>
    /\ resp = NoResp
    /\ alog = <<>>
    /\ feed_i = 0
    /\ out = <<>>
    /\ rss_log = NoFeed
    /\ all_items \in SeqsUpTo(DedupInputs, MaxDedupLen)
    /\ dedup = <<>>
    /\ filtered = <<>>
    /\ csv = NoCsv
    /\ printed = -1
    /\ win_dt = NoDate
    /\ win_out = ""

NextDedup == Dedup

SpecDedup == InitDedup /\ [][NextDedup]_vars

(***************************************************************************)
(* filter_jobs on its own, for any sequence of postings                    *)
(***************************************************************************)
\* clock - timedelta(days, seconds, microseconds), for a date in range
Back(clock, days, secs, us) ==
    LET us0 == clock.us - us
        s0  == (clock.s - secs) - (IF us0 < 0 THEN 1 ELSE 0)
        d0  == (clock.d - days) - (IF s0 < 0 THEN 1 ELSE 0)
    IN  Aware(d0, IF s0 < 0 THEN s0 + 86400 ELSE s0,
              IF us0 < 0 THEN us0 + 1000000 ELSE us0)

Job(posted_dt, title, skills, location_plain, location, remote, exp) ==
    Posting("adzuna", title, None, location, location_plain, remote, skills, exp,
            <<"u">>, posted_dt, Take(Or(skills, <<>>), short_desc_len))

NoArea == [has |-> TRUE, area |-> <<>>]
Num(n) == [kind |-> "num", v |-> n]

FilterInputs ==
    { Job(Recent, <<"J","a","v","a"," ","D","e","v">>, <<"S","p","r","i","n","g">>, <<"B","e","n","g","a","l","u","r","u">>, NoArea, FALSE, NoExp),
      Job(NoDate, <<"J","a","v","a"," ","D","e","v">>, <<"S","p","r","i","n","g">>, <<"B","e","n","g","a","l","u","r","u">>, NoArea, FALSE, NoExp),
      Job(Back(Clock0, 2, 0, 0), <<"J","a","v","a"," ","D","e","v">>, <<"S","p","r","i","n","g">>, <<"B","e","n","g","a","l","u","r","u">>, NoArea, FALSE, NoExp),
      Job(Back(Clock0, 2, 60, 0), <<"J","a","v","a"," ","D","e","v">>, <<"S","p","r","i","n","g">>, <<"B","e","n","g","a","l","u","r","u">>, NoArea, FALSE, NoExp),
      Job(Naive(739000, 32400, 0), <<"J","a","v","a"," ","D","e","v">>, <<"S","p","r","i","n","g">>, <<"B","e","n","g","a","l","u","r","u">>, NoArea, FALSE, NoExp),
      Job(Recent, <<"C","o","o","k">>, <<"B","a","k","i","n","g">>, <<"B","e","n","g","a","l","u","r","u">>, NoArea, FALSE, NoExp),
      Job(Recent, <<"F","U","L","L","-","S","T","A","C","K"," ","E","n","g","i","n","e","e","r">>, None, <<"I","n","d","i","a">>, NoArea, FALSE, NoExp),
      Job(Recent, None, <<"n","o","d","e",".","j","s">>, <<"r","e","m","o","t","e">>, NoArea, FALSE, NoExp),
      Job(Recent, <<"J","a","v","a"," ","D","e","v">>, <<"S","p","r","i","n","g">>, <<"P","u","n","e">>, NoArea, FALSE, NoExp),
      Job(Recent, <<"J","a","v","a"," ","D","e","v">>, <<"S","p","r","i","n","g">>, <<"P","u","n","e">>, NoArea, TRUE, NoExp),
      Job(Recent, <<"J","a","v","a"," ","D","e","v">>, <<"S","p","r","i","n","g">>, None,
          [has |-> TRUE, area |-> << <<"K","a","r","n","a","t","a","k","a">>, <<"B","A","N","G","A","L","O","R","E">> >>], FALSE, NoExp),
      Job(Recent, <<"J","a","v","a"," ","D","e","v">>, <<"S","p","r","i","n","g">>, <<"P","u","n","e">>,
          [has |-> TRUE, area |-> << <<"I","n","d","i","a">> >>], FALSE, NoExp),
      Job(Recent, <<"J","a","v","a"," ","D","e","v">>, <<"S","p","r","i","n","g">>, <<>>, [has |-> FALSE, area |-> <<>>], FALSE, NoExp),
      Job(Recent, <<"J","a","v","a"," ","D","e","v">>, <<"S","p","r","i","n","g">>, <<"B","e","n","g","a","l","u","r","u">>, NoArea, FALSE, Num(1)),
      Job(Recent, <<"J","a","v","a"," ","D","e","v">>, <<"S","p","r","i","n","g">>, <<"B","e","n","g","a","l","u","r","u">>, NoArea, FALSE, Num(2)),
      Job(Recent, <<"J","a","v","a"," ","D","e","v">>, <<"S","p","r","i","n","g">>, <<"B","e","n","g","a","l","u","r","u">>, NoArea, FALSE, Num(4)),
      Job(Recent, <<"J","a","v","a"," ","D","e","v">>, <<"S","p","r","i","n","g">>, <<"B","e","n","g","a","l","u","r","u">>, NoArea, FALSE, Num(5)),
      Job(Recent, <<"J","a","v","a"," ","D","e","v">>, <<"S","p","r","i","n","g">>, <<"B","e","n","g","a","l","u","r","u">>, NoArea, FALSE,
          [kind |-> "str", v |-> 9]) }

FilterClocks == {Clock0, Aware(Clock0.d, Clock0.s, Clock0.us + 1)}

InitFilter ==
    /\ pc = "filter"
    /\ exc = ""
    /\ use_adzuna = FALSE
    /\ n_feeds = 0
    /\ now \in FilterClocks
    /\ ticks = 0
    /\ page = 0
    /\ results = <<>>
    /\ resp = NoResp
    /\ alog = <<>>
    /\ feed_i = 0
    /\ out = <<>>
    /\ rss_log = NoFeed
    /\ all_items = <<>>
    /\ dedup \in SeqsUpTo(FilterInputs, MaxFilterLen)
    /\ filtered = <<>>
    /\ csv = NoCsv
    /\ printed = -1
    /\ win_dt = NoDate
    /\ win_out = ""

NextFilter == Filter

SpecFilter == InitFilter /\ [][NextFilter]_vars

(***************************************************************************)
(* within_window on its own, for any instant and any clock reading         *)
(***************************************************************************)
WindowClocks ==
    { Clock0, Aware(739000, 0, 0), Aware(739000, 86399, 999999),
      Aware(739000, 3600, 1), Aware(739001, 43200, 999999) }

\* instants around the edge of the window, an absent one and a naive one
WindowInputs(clock) ==
    { NoDate, Naive(clock.d, clock.s, clock.us), clock,
      Back(clock, -1, 0, 0),
      Back(clock, 1, 86340, 0),
      Back(clock, 1, 86399, 999999),
      Back(clock, 2, 0, 0),
      Back(clock, 2, 0, 1),
      Back(clock, 2, 0, 999999),
      Back(clock, 2, 1, 0),
      Back(clock, 2, 60, 0),
      Back(clock, 30, 0, 0) }

InitWindow ==
    /\ pc = "window"
    /\ exc = ""
    /\ use_adzuna = FALSE
    /\ n_feeds = 0
    /\ now \in WindowClocks
    /\ ticks = 0
    /\ page = 0
    /\ results = <<>>
    /\ resp = NoResp
    /\ alog = <<>>
    /\ feed_i = 0
    /\ out = <<>>
    /\ rss_log = NoFeed
    /\ all_items = <<>>
    /\ dedup = <<>>
    /\ filtered = <<>>
    /\ csv = NoCsv
    /\ printed = -1
    /\ win_dt \in WindowInputs(now)
    /\ win_out = ""

\* lines 73-75: one call within_window(win_dt)
WindowCall ==
    /\ pc = "window"
    /\ win_out' = within_window(win_dt, now)
    /\ pc' = "window_done"
    /\ UNCHANGED <<exc, use_adzuna, n_feeds, now, ticks, page, results, resp, alog,
                   feed_i, out, rss_log, all_items, dedup, filtered, csv, printed, win_dt>>

NextWindow == WindowCall

SpecWindow == InitWindow /\ [][NextWindow]_vars

(***************************************************************************)
(* Properties                                                              *)
(***************************************************************************)

\* C1: in one call of fetch_adzuna_jobs at most 5 page requests are issued:
\* pages 1..5, never a request for page 6.
C1_AtMostFivePageRequests ==
    \A i \in DOMAIN alog : alog[i].ev = "get" => alog[i].page <= 5

\* C2: a network error or an undecodable body of a page request does not
\* propagate out of fetch_adzuna_jobs: the fetcher returns what it has.
C2_FetchErrorStaysInFetcher ==
    ~(pc = "crashed" /\ exc \in {"Timeout", "ConnectionError", "JSONDecodeError"})

\* C3: no fetch-level or item-level fault stops the run before the output
\* file is written and the summary line printed.
C3_NoFaultStopsTheRun ==
    pc = "crashed" => (csv # NoCsv /\ printed >= 0)

C4_link_usable(it) == it.link # None /\ Strip(it.link) # <<>>
C4_key(it) == IF C4_link_usable(it) THEN it.link ELSE it.title
C4_has_key(it) == C4_key(it) # None /\ C4_key(it) # <<>>

\* the records of items that carry a key, each the first with its key
C4_first_occurrences(items) ==
    LET keep == {i \in DOMAIN items :
                    /\ C4_has_key(items[i])
                    /\ \A j \in 1..(i - 1) : C4_key(items[j]) # C4_key(items[i])}
        F[n \in 0..Len(items)] ==
            IF n = 0 THEN <<>>
            ELSE IF n \in keep THEN Append(F[n - 1], items[n]) ELSE F[n - 1]
    IN  F[Len(items)]

\* C4: the deduplicated sequence is the first occurrence of each non-empty
\* identity key in first-seen order, the key being the link when it is
\* non-empty and not whitespace-only and the title otherwise, compared exactly.
C4_DedupKeepsFirstOfEachKey ==
    pc = "filter" => dedup = C4_first_occurrences(all_items)

\* not before: a >= b for two aware datetimes
NotBefore(a, b) ==
    \/ a.d > b.d
    \/ a.d = b.d /\ a.s > b.s
    \/ a.d = b.d /\ a.s = b.s /\ a.us >= b.us

\* the clock reading minus post_within_hours * 3600 seconds
WindowStart(clock) ==
    Back(clock, (post_within_hours * 3600) \div 86400,
                (post_within_hours * 3600) % 86400, 0)

C5_recent(it, clock) ==
    /\ it.posted_dt.kind = "aware"
    /\ NotBefore(it.posted_dt, WindowStart(clock))

C5_text(it) ==
    Lower(Join(SelectSeq(<<it.title, it.skills, it.short_desc>>,
                         LAMBDA x : x # None /\ x # <<>>)))

C5_interest(it) ==
    \/ \E k \in DOMAIN keywords : Contains(Lower(keywords[k]), C5_text(it))
    \/ \E alt \in roles_alternatives : Contains(alt, C5_text(it))

C5_location(it) ==
    LET text == IF it.location_plain # None /\ it.location_plain # <<>>
                THEN it.location_plain
                ELSE Join(it.location.area)
    IN  \/ \E k \in DOMAIN locations_allowed :
              Contains(Lower(locations_allowed[k]), Lower(text))
        \/ it.remote

C5_experience(it) ==
    it.exp.kind = "num" => (exp_min <= it.exp.v /\ it.exp.v <= exp_max)

C5_keep(it) ==
    C5_recent(it, now) /\ C5_interest(it) /\ C5_location(it) /\ C5_experience(it)

C6_FailedFeedIsSkipped ==
    [][(pc = "rss" /\ feed_i <= n_feeds /\ rss_log'.kind # "ok")
          => (out' = out /\ pc' = "rss" /\ feed_i' = feed_i + 1)]_vars

\* C7 as stated: after a page request that returns, the loop stops exactly
\* when the status is not success, or the number of postings fetched so far
\* has reached the reported count, or the page cap is reached.
C7_StopsOnCumulativeCount ==
    [][(pc = "adzuna" /\ pc' # "crashed")
          => ((pc' = "adzuna_return")
                <=> \/ resp'.status \notin 200..299
                    \/ Len(results') >= resp'.count
                    \/ page > page_cap)]_vars

\* C7: after a page request that returns, the loop stops exactly when the
\* status is not 200, or the page number times the page size of 50 has
\* reached the count of that response (0 for a body without one), or the page
\* number is above 5; otherwise the next page is requested.
C7_StopsOnPageTimesFifty ==
    [][(pc = "adzuna" /\ pc' # "crashed")
          => /\ (pc' = "adzuna_return")
                   <=> \/ resp'.status # 200
                       \/ page * 50 >= resp'.count
                       \/ page > 5
             /\ pc' = "adzuna_return" => page' = page
             /\ pc' # "adzuna_return" => (pc' = "adzuna" /\ page' = page + 1)]_vars

\* the loop stopped on a 200 response below the cap while fewer postings
\* than the reported count had been fetched
C7_Witness ==
    /\ pc = "adzuna_return"
    /\ resp.status = 200
    /\ page \in 2..5
    /\ Len(results) < resp.count

\* C8 as stated: for a present instant the result is true exactly when the
\* elapsed whole seconds are at most post_within_hours * 3600.
C8_WholeSecondsDecide ==
    (pc = "window_done" /\ win_dt.kind = "aware")
       => LET td == DtSub(now, win_dt)
              whole_le == \/ td.days < (post_within_hours * 3600) \div 86400
                          \/ /\ td.days = (post_within_hours * 3600) \div 86400
                             /\ td.seconds <= (post_within_hours * 3600) % 86400
          IN  win_out = IF whole_le THEN "True" ELSE "False"

\* C8: within_window returns false for an absent instant; for a present
\* aware instant it returns true exactly when the instant is not before the
\* clock reading minus post_within_hours * 3600 seconds, microseconds counted
\* (47h59m and exactly 48h inside, 48h and one microsecond outside); for a
\* present naive instant it raises TypeError.
C8_WindowToTheMicrosecond ==
    pc = "window_done"
       => win_out =
            IF win_dt.kind = "none" THEN "False"
            ELSE IF win_dt.kind = "naive" THEN "TypeError"
            ELSE IF NotBefore(win_dt, WindowStart(now)) THEN "True"
            ELSE "False"

\* an instant 48 hours and one microsecond back is outside the window
C8_Witness ==
    /\ pc = "window_done"
    /\ win_dt = Back(now, 2, 0, 1)
    /\ win_out = "False"

\* the trace of one call: request, sleep, request, ..., the i-th request for
\* page i, at most page_cap + 1 requests
C9_trace_ok ==
    /\ \A i \in DOMAIN alog :
          /\ alog[i].ev = (IF i % 2 = 1 THEN "get" ELSE "sleep")
          /\ alog[i].page = (i + 1) \div 2
    /\ Len(alog) <= 2 * (page_cap + 1) - 1
    /\ pc = "adzuna" => Len(alog) = 2 * (page - 1)
    /\ pc = "adzuna_return" => Len(alog) % 2 = 1

\* C9: the page loop ends after a bounded number of requests whatever status
\* and count each response carries: every pass either leaves the loop or
\* moves to the next page, and no page above page_cap + 1 is ever reached;
\* one sleep separates two consecutive requests and none follows the last.
C9_PageLoopTerminates ==
    [][pc = "adzuna"
          => /\ pc' = "adzuna" => page' = page + 1
             /\ page' <= page_cap + 1
             /\ C9_trace_ok']_vars

\* the loop ran its longest: six requests, five sleeps
C9_Witness ==
    /\ pc = "adzuna_return"
    /\ Len(alog) = 11
    /\ alog[11].ev = "get"

====
